---- MODULE Spec2Model ----
(***************************************************************************)
(* A model of table_extractor/pipeline/pipeline.py: the text-field        *)
(* reconciliation (merge_text_fields, merge_closest_text_fields), the     *)
(* line snapping of bordered_to_struct, the two header heuristics         *)
(* (PageProcessor.create_header, actualize_header) and the table fusion   *)
(* policy of PageProcessor.process_page.                                  *)
(*                                                                         *)
(* Each function is run by a specification of its own (SpecClosest,       *)
(* SpecMergeText, ...): its Init draws the function's inputs from bounded *)
(* sets and its actions are the steps of the function's code.  The        *)
(* variables of the other functions stay at their idle values.            *)
(***************************************************************************)
EXTENDS Integers, Sequences, FiniteSets, TLC

VARIABLES
    \* merge_closest_text_fields
    mc_pc,          \* "idle" | "loop" | "done"
    mc_sorted,      \* sorted(text_fields, key=(top_left_y, top_left_x)), the list iterated
    mc_i,           \* index (1-based) of the next element of mc_sorted
    curr_field,     \* <<>> for None, <<f>> for the TextField f
    merged_fields   \* the list returned

closestVars == <<mc_pc, mc_sorted, mc_i, curr_field, merged_fields>>

(***************************************************************************)
(* Geometry primitives (BorderBox of table_extractor.model.table).        *)
(***************************************************************************)
Min(a, b) == IF a <= b THEN a ELSE b
Max(a, b) == IF a >= b THEN a ELSE b

Box(x1, y1, x2, y2) ==
    [top_left_x |-> x1, top_left_y |-> y1, bottom_right_x |-> x2, bottom_right_y |-> y2]

\* BorderBox.merge: the smallest box enclosing both.
BoxMerge(a, b) ==
    Box(Min(a.top_left_x, b.top_left_x), Min(a.top_left_y, b.top_left_y),
        Max(a.bottom_right_x, b.bottom_right_x), Max(a.bottom_right_y, b.bottom_right_y))

\* inner.box_is_inside_another(outer, threshold=0.0): exact containment.
BoxInside(inner, outer) ==
    /\ outer.top_left_x <= inner.top_left_x
    /\ outer.top_left_y <= inner.top_left_y
    /\ inner.bottom_right_x <= outer.bottom_right_x
    /\ inner.bottom_right_y <= outer.bottom_right_y

TextField(bbox, text) == [bbox |-> bbox, text |-> text]

(***************************************************************************)
(* merge_closest_text_fields                                               *)
(***************************************************************************)
\* The literal 20 of the merge condition.
MergeGap == 20

\* Bounds of the inputs.
MaxFields == 3
MaxY == 0

\* Left and right edges around the merge threshold: gaps of 19, 20, -19, -20.
XCoords == {0, 1, MergeGap}
YCoords == 0 .. MaxY

\* A text is a sequence of characters; field k of the input carries letter k.
Letters == <<"a", "b", "c", "d", "e">>
Space == <<" ">>

ClosestFieldBoxes ==
    { Box(x1, y, x2, y + 1) : x1 \in XCoords, x2 \in XCoords, y \in YCoords }
        \ { b \in { Box(x1, y, x2, y + 1) : x1 \in XCoords, x2 \in XCoords, y \in YCoords } :
                b.top_left_x > b.bottom_right_x }

\* The inputs: up to MaxFields boxes, in any order; FieldsOf gives field k its letter.
ClosestInputs ==
    UNION { [1 .. n -> ClosestFieldBoxes] : n \in 0 .. MaxFields }

FieldsOf(bs) == [k \in 1 .. Len(bs) |-> TextField(bs[k], <<Letters[k]>>)]

\* The sort key lambda x: (x.bbox.top_left_y, x.bbox.top_left_x), compared as tuples.
KeyLeq(f, g) ==
    \/ f.bbox.top_left_y < g.bbox.top_left_y
    \/ /\ f.bbox.top_left_y = g.bbox.top_left_y
       /\ f.bbox.top_left_x <= g.bbox.top_left_x

\* Insert f behind every element whose key is <= f's key (sorted() is stable).
RECURSIVE InsertField(_, _)
InsertField(f, s) ==
    IF s = <<>> THEN <<f>>
    ELSE IF KeyLeq(Head(s), f) THEN <<Head(s)>> \o InsertField(f, Tail(s))
    ELSE <<f>> \o s

RECURSIVE SortFields(_)
SortFields(s) ==
    IF s = <<>> THEN <<>>
    ELSE InsertField(s[Len(s)], SortFields(SubSeq(s, 1, Len(s) - 1)))

\* 20 > text_field.bbox.top_left_x - curr_field.bbox.bottom_right_x > -20
CloseEnoughLoose(curr, tf) ==
    /\ MergeGap >= tf.bbox.top_left_x - curr.bbox.bottom_right_x
    /\ tf.bbox.top_left_x - curr.bbox.bottom_right_x > -MergeGap

CloseEnough(curr, tf) ==
    /\ MergeGap > tf.bbox.top_left_x - curr.bbox.bottom_right_x
    /\ tf.bbox.top_left_x - curr.bbox.bottom_right_x > -MergeGap

\* TextField(bbox=curr.bbox.merge(tf.bbox), text=curr.text + " " + tf.text)
JoinFields(curr, tf) ==
    TextField(BoxMerge(curr.bbox, tf.bbox), curr.text \o Space \o tf.text)

ClosestIdle ==
    /\ mc_pc = "idle"
    /\ mc_sorted = <<>>
    /\ mc_i = 1
    /\ curr_field = <<>>
    /\ merged_fields = <<>>

\* The call: merged_fields = [], curr_field = None, the input sorted.
ClosestInit ==
    /\ mc_pc = "loop"
    /\ \E bs \in ClosestInputs : mc_sorted = SortFields(FieldsOf(bs))
    /\ mc_i = 1
    /\ curr_field = <<>>
    /\ merged_fields = <<>>

\* One iteration of the for loop.
ClosestStep ==
    /\ mc_pc = "loop"
    /\ mc_i <= Len(mc_sorted)
    /\ LET text_field == mc_sorted[mc_i]
           \* if not curr_field: curr_field = text_field
           curr == IF curr_field = <<>> THEN text_field ELSE curr_field[1]
       IN  \* if curr_field: (a TextField is always truthy)
           IF CloseEnough(curr, text_field)
           THEN /\ curr_field' = <<JoinFields(curr, text_field)>>
                /\ merged_fields' = merged_fields
           ELSE /\ merged_fields' = Append(merged_fields, curr)
                /\ curr_field' = <<text_field>>
    /\ mc_i' = mc_i + 1
    /\ UNCHANGED <<mc_pc, mc_sorted>>

\* After the loop: flush the accumulator and return merged_fields.
ClosestReturn ==
    /\ mc_pc = "loop"
    /\ mc_i > Len(mc_sorted)
    /\ merged_fields' = IF curr_field # <<>> THEN Append(merged_fields, curr_field[1])
                        ELSE merged_fields
    /\ mc_pc' = "done"
    /\ UNCHANGED <<mc_sorted, mc_i, curr_field>>

(***************************************************************************)
(* merge_text_fields                                                       *)
(***************************************************************************)
MaxPaddle == 2
MaxPoppler == 2

\* Box corners of the reconciliation inputs: nested, equal, overlapping, disjoint.
MergeCoords == {0, 1, 2}

MergeTextBoxes ==
    { b \in { Box(x1, 0, x2, 1) : x1 \in MergeCoords, x2 \in MergeCoords } :
        b.top_left_x <= b.bottom_right_x }

\* Distinct texts: 11, 12, ... from the scene-text detector, 21, 22, ... embedded.
PaddleInputs ==
    UNION { { [k \in 1 .. n |-> TextField(bs[k], 10 + k)] :
                bs \in [1 .. n -> MergeTextBoxes] } : n \in 0 .. MaxPaddle }

PopplerInputs ==
    UNION { { [k \in 1 .. n |-> TextField(bs[k], 20 + k)] :
                bs \in [1 .. n -> MergeTextBoxes] } : n \in 0 .. MaxPoppler }

\* The inner loop of the first pass: the merged fields of one pop_t_b.
RECURSIVE MergedWith(_, _)
MergedWith(pop_t_b, paddle_t_b) ==
    IF paddle_t_b = <<>> THEN <<>>
    ELSE LET pad_t_b == Head(paddle_t_b)
         IN  (IF BoxInside(pop_t_b.bbox, pad_t_b.bbox)
              THEN <<TextField(BoxMerge(pad_t_b.bbox, pop_t_b.bbox), pop_t_b.text)>>
              ELSE <<>>) \o MergedWith(pop_t_b, Tail(paddle_t_b))

\* The first pass: <<merged_t_b, not_matched>> after the loop over poppler_t_b.
RECURSIVE FirstPass(_, _)
FirstPass(paddle_t_b, poppler_t_b) ==
    IF poppler_t_b = <<>> THEN <<<<>>, <<>>>>
    ELSE LET pop_t_b == Head(poppler_t_b)
             m == MergedWith(pop_t_b, paddle_t_b)
             rest == FirstPass(paddle_t_b, Tail(poppler_t_b))
         IN  <<m \o rest[1],
               (IF m = <<>> THEN <<pop_t_b>> ELSE <<>>) \o rest[2]>>

\* The test of the second pass: some merged field lies inside pad_t_b.
ExistsMergedAny(pad_t_b, merged_t_b) ==
    \E i \in 1 .. Len(merged_t_b) :
        \/ BoxInside(merged_t_b[i].bbox, pad_t_b.bbox)
        \/ BoxInside(pad_t_b.bbox, merged_t_b[i].bbox)

ExistsMerged(pad_t_b, merged_t_b) ==
    \E i \in 1 .. Len(merged_t_b) : BoxInside(merged_t_b[i].bbox, pad_t_b.bbox)

\* The second pass: the paddle fields appended to not_matched.
SecondPass(paddle_t_b, merged_t_b) ==
    SelectSeq(paddle_t_b, LAMBDA pad_t_b : ~ExistsMerged(pad_t_b, merged_t_b))

merge_text_fields(paddle_t_b, poppler_t_b) ==
    LET first == FirstPass(paddle_t_b, poppler_t_b)
        merged_t_b == first[1]
        not_matched == first[2] \o SecondPass(paddle_t_b, merged_t_b)
    IN  merged_t_b \o not_matched

VARIABLES
    mt_pc,          \* "idle" | "call" | "done"
    mt_paddle,      \* paddle_t_b
    mt_poppler,     \* poppler_t_b
    mt_result       \* the list returned

mergeTextVars == <<mt_pc, mt_paddle, mt_poppler, mt_result>>

MergeTextIdle ==
    /\ mt_pc = "idle"
    /\ mt_paddle = <<>>
    /\ mt_poppler = <<>>
    /\ mt_result = <<>>

MergeTextInit ==
    /\ mt_pc = "call"
    /\ mt_paddle \in PaddleInputs
    /\ mt_poppler \in PopplerInputs
    /\ mt_result = <<>>

MergeTextCall ==
    /\ mt_pc = "call"
    /\ mt_result' = merge_text_fields(mt_paddle, mt_poppler)
    /\ mt_pc' = "done"
    /\ UNCHANGED <<mt_paddle, mt_poppler>>

(***************************************************************************)
(* PageProcessor.analyse and PageProcessor.create_header                   *)
(***************************************************************************)
\* create_header(table.rows, 6) and create_header(table.cols, 5)
RowHeaderLimit == 6
ColHeaderLimit == 5
HeaderLimits == {RowHeaderLimit, ColHeaderLimit}

\* thresh = 5 of analyse
AnalyseThresh == 5

MaxLines == 6

\* A cell is the pair <<header_score, cell_score>> the header checker gives it.
HeaderCell == <<1, 0>>
BodyCell == <<0, 1>>

\* A line of n cells of which the first h are scored as header cells.
Line(n, h) == [k \in 1 .. n |-> IF k <= h THEN HeaderCell ELSE BodyCell]

\* Short lines (len <= thresh) and long lines (len > thresh), each at both sides of
\* the threshold of analyse.
LineKinds == { Line(2, 1), Line(2, 2), Line(AnalyseThresh + 1, 1), Line(AnalyseThresh + 1, 2) }

SeriesInputs == UNION { [1 .. n -> LineKinds] : n \in 0 .. MaxLines }

\* analyse: the cells with header_score > cell_score, counted against the threshold.
analyse(series) ==
    LET headers == { k \in 1 .. Len(series) : series[k][1] > series[k][2] }
    IN  IF Len(series) > AnalyseThresh
        THEN AnalyseThresh * Cardinality(headers) > Len(series)
        ELSE 2 * Cardinality(headers) > Len(series)

\* The loop over series[:header_limit]: the is_header flag of each examined line.
HeaderFlags(series, header_limit) ==
    [idx \in 1 .. Min(header_limit, Len(series)) |-> analyse(series[idx])]

\* last_header after the loop, as a count of lines: 0 for None.
FirstHeader(flags) ==
    IF \E idx \in 1 .. Len(flags) : flags[idx]
    THEN CHOOSE idx \in 1 .. Len(flags) :
            flags[idx] /\ \A j \in 1 .. Len(flags) : flags[j] => j >= idx
    ELSE 0

LastHeader(flags) ==
    IF \E idx \in 1 .. Len(flags) : flags[idx]
    THEN CHOOSE idx \in 1 .. Len(flags) :
            flags[idx] /\ \A j \in 1 .. Len(flags) : flags[j] => j <= idx
    ELSE 0

create_header(series, header_limit) ==
    LET last_header == LastHeader(HeaderFlags(series, header_limit))
        \* header_candidates[:last_header + 1], or [] when last_header is None
        header == SubSeq(series, 1, last_header)
    IN  \* len(header) > 0.75 * len(series)
        IF 4 * Len(header) > 3 * Len(series) THEN <<>> ELSE header

VARIABLES
    ch_pc,          \* "idle" | "call" | "done"
    ch_series,      \* series
    ch_limit,       \* header_limit
    ch_header       \* the header returned

headerVars == <<ch_pc, ch_series, ch_limit, ch_header>>

HeaderIdle ==
    /\ ch_pc = "idle"
    /\ ch_series = <<>>
    /\ ch_limit = 0
    /\ ch_header = <<>>

HeaderInit ==
    /\ ch_pc = "call"
    /\ ch_series \in SeriesInputs
    /\ ch_limit \in HeaderLimits
    /\ ch_header = <<>>

CreateHeaderCall ==
    /\ ch_pc = "call"
    /\ ch_header' = create_header(ch_series, ch_limit)
    /\ ch_pc' = "done"
    /\ UNCHANGED <<ch_series, ch_limit>>

(***************************************************************************)
(* cnt_ciphers and actualize_header                                        *)
(***************************************************************************)
MaxRows == 4

Digits == {"0", "1", "2", "3", "4", "5", "6", "7", "8", "9"}

\* A cell with the given texts (each a sequence of characters) as its text boxes.
CellOf(texts) == [text_boxes |-> [k \in 1 .. Len(texts) |-> [text |-> texts[k]]]]

\* Rows of digit density 0 (no characters), 0, 1/2 (over two cells) and 1.
RowKinds ==
    { <<CellOf(<<>>)>>,
      <<CellOf(<<<<"a">>>>)>>,
      <<CellOf(<<<<"a">>>>), CellOf(<<<<>>, <<"7">>>>)>>,
      <<CellOf(<<<<"4">>>>)>> }

TableRowInputs == UNION { [1 .. n -> RowKinds] : n \in 1 .. MaxRows }

RECURSIVE Concat(_)
Concat(text_boxes) ==
    IF text_boxes = <<>> THEN <<>> ELSE Head(text_boxes).text \o Concat(Tail(text_boxes))

\* cnt_ciphers as the pair <<count, all_chars_count>>.
RECURSIVE CountCiphers(_)
CountCiphers(cells) ==
    IF cells = <<>> THEN <<0, 0>>
    ELSE LET sentence == Concat(Head(cells).text_boxes)
             rest == CountCiphers(Tail(cells))
         IN  <<Cardinality({ k \in 1 .. Len(sentence) : sentence[k] \in Digits }) + rest[1],
               Len(sentence) + rest[2]>>

\* cnt_ciphers(a) > cnt_ciphers(b), each being count / all_chars_count, or 0.
DensityGreater(a, b) ==
    LET ca == CountCiphers(a)
        cb == CountCiphers(b)
        na == IF ca[2] = 0 THEN 0 ELSE ca[1]
        da == IF ca[2] = 0 THEN 1 ELSE ca[2]
        nb == IF cb[2] = 0 THEN 0 ELSE cb[1]
        db == IF cb[2] = 0 THEN 1 ELSE cb[2]
    IN  na * db > nb * da

\* The loop over table_rows[1:]: current_ciphers stays the density of row 0.
RECURSIVE HeaderCandidates(_, _, _)
HeaderCandidates(table_rows, k, header_candidates) ==
    IF k > Len(table_rows) THEN header_candidates
    ELSE IF DensityGreater(table_rows[k], table_rows[1]) THEN header_candidates
    ELSE HeaderCandidates(table_rows, k + 1, Append(header_candidates, table_rows[k]))

\* The header of the StructuredTableHeadered returned.
actualize_header(table_rows) ==
    LET header_candidates == HeaderCandidates(table_rows, 2, <<table_rows[1]>>)
    IN  IF Len(header_candidates) < Len(table_rows) THEN header_candidates ELSE <<>>

VARIABLES
    ah_pc,          \* "idle" | "call" | "done"
    ah_rows,        \* table.rows
    ah_header       \* the header of the table returned

actualizeVars == <<ah_pc, ah_rows, ah_header>>

ActualizeIdle ==
    /\ ah_pc = "idle"
    /\ ah_rows = <<>>
    /\ ah_header = <<>>

ActualizeInit ==
    /\ ah_pc = "call"
    /\ ah_rows \in TableRowInputs
    /\ ah_header = <<>>

ActualizeHeaderCall ==
    /\ ah_pc = "call"
    /\ ah_header' = actualize_header(ah_rows)
    /\ ah_pc' = "done"
    /\ UNCHANGED ah_rows

(***************************************************************************)
(* bordered_to_struct: the line snapping                                   *)
(***************************************************************************)
MaxEdge == 3
MaxCols == 3
MaxBandRows == 2

\* A band (a column or a row) by its two edges along the axis that matters.
Bands == { <<lo, hi>> : lo \in 0 .. MaxEdge, hi \in 0 .. MaxEdge } \ { b \in (0 .. MaxEdge) \X (0 .. MaxEdge) : b[1] >= b[2] }

ColInputs == UNION { [1 .. n -> Bands] : n \in 1 .. MaxCols }
RowInputs == UNION { [1 .. n -> Bands] : n \in 1 .. MaxBandRows }

RECURSIVE InsertInt(_, _)
InsertInt(x, s) ==
    IF s = <<>> THEN <<x>>
    ELSE IF Head(s) <= x THEN <<Head(s)>> \o InsertInt(x, Tail(s))
    ELSE <<x>> \o s

RECURSIVE SortInts(_)
SortInts(s) ==
    IF s = <<>> THEN <<>>
    ELSE InsertInt(s[Len(s)], SortInts(SubSeq(s, 1, Len(s) - 1)))

RECURSIVE SortedOfSet(_)
SortedOfSet(S) ==
    IF S = {} THEN <<>>
    ELSE LET m == CHOOSE x \in S : \A y \in S : x <= y
         IN  <<m>> \o SortedOfSet(S \ {m})

\* v_lines.extend([col.bbox.top_left_x, col.bbox.bottom_right_x]) for every band.
RECURSIVE Edges(_)
Edges(bands) ==
    IF bands = <<>> THEN <<>>
    ELSE <<Head(bands)[1], Head(bands)[2]>> \o Edges(Tail(bands))

\* lines = sorted(lines); merged = [lines[0], lines[-1]];
\* for i in range(0, len(lines[1:-1]) // 2):
\*     merged.append((lines[2 * i] + lines[2 * i + 1]) // 2)
\* lines = sorted(list(set(merged)))            (1-based indices below)
SnapLines(bands) ==
    LET lines == SortInts(Edges(bands))
        n == Len(lines)
        merged == {lines[1], lines[n]}
                    \cup { (lines[2 * i + 1] + lines[2 * i + 2]) \div 2 :
                             i \in 0 .. ((n - 2) \div 2) - 1 }
    IN  SortedOfSet(merged)

VARIABLES
    bs_pc,          \* "idle" | "cols" | "rows" | "done"
    bs_cols,        \* the column bands of bordered_table
    bs_rows,        \* the row bands of bordered_table
    v_lines,        \* the snapped column edges
    h_lines         \* the snapped row edges

snapVars == <<bs_pc, bs_cols, bs_rows, v_lines, h_lines>>

SnapIdle ==
    /\ bs_pc = "idle"
    /\ bs_cols = <<>>
    /\ bs_rows = <<>>
    /\ v_lines = <<>>
    /\ h_lines = <<>>

SnapInit ==
    /\ bs_pc = "cols"
    /\ bs_cols \in ColInputs
    /\ bs_rows \in RowInputs
    /\ v_lines = <<>>
    /\ h_lines = <<>>

SnapColumns ==
    /\ bs_pc = "cols"
    /\ v_lines' = SnapLines(bs_cols)
    /\ bs_pc' = "rows"
    /\ UNCHANGED <<bs_cols, bs_rows, h_lines>>

SnapRows ==
    /\ bs_pc = "rows"
    /\ h_lines' = SnapLines(bs_rows)
    /\ bs_pc' = "done"
    /\ UNCHANGED <<bs_cols, bs_rows, v_lines>>

(***************************************************************************)
(* PageProcessor.process_page: the table fusion policy                     *)
(***************************************************************************)
MaxRegions == 2
MaxBordered == 2

\* What the collaborators may answer: values at both sides of each comparison of
\* the policy (score >= score, cells > tags, 5 * score < cells, 2 * score >= score,
\* 2 * cells >= cells), and on it.
RegionLabels == {"Bordered", "Borderless"}
TagCounts == {1, 2}                 \* len(inf_table.tags)
Scores == {1, 2}                    \* mask_rcnn_count_matches, semi_border_score
SemiCellCounts == {2, 3}            \* semi_border.count_cells()
TableCellCounts == {1, 6}           \* len(table.cells) of a reconstructed table
BorderedCellCounts == {2, 3}        \* bordered_table.count_cells()
BorderedScores == {0, 1}            \* bordered_score

\* inference_service.inference_image: the regions, in emission order.
InferenceInputs ==
    UNION { [1 .. n -> [label : RegionLabels]] : n \in 0 .. MaxRegions }

\* A StructuredTable: the strategy that built it, the region (of its detector) it
\* was built for, and the number of its cells.
StructTable(kind, region, cells) == [kind |-> kind, region |-> region, cells |-> cells]

\* semi_border_score >= mask_rcnn_count_matches
\*     and semi_border.count_cells() > len(inf_table.tags)
AdoptSemiLoose(semi_border_score, mask_rcnn_count_matches, semi_cells, tags) ==
    /\ semi_border_score >= mask_rcnn_count_matches
    /\ semi_cells >= tags

AdoptSemi(semi_border_score, mask_rcnn_count_matches, semi_cells, tags) ==
    /\ semi_border_score >= mask_rcnn_count_matches
    /\ semi_cells > tags

\* has_bordered or any(score < 0.2 * len(table.cells) for score, table in detected_tables)
NeedsBorderedByScoreOnly(bordered, detected) ==
    \E k \in 1 .. Len(detected) : 5 * detected[k][1] < detected[k][2].cells

NeedsBordered(bordered, detected) ==
    \/ bordered
    \/ \E k \in 1 .. Len(detected) : 5 * detected[k][1] < detected[k][2].cells

\* bordered_score >= score * 0.5
\*     and bordered_table.count_cells() >= len(inf_table.cells) * 0.5
AdoptBorderedStrict(b_score, score, b_cells, cells) ==
    /\ 2 * b_score > score
    /\ 2 * b_cells > cells

AdoptBordered(b_score, score, b_cells, cells) ==
    /\ 2 * b_score >= score
    /\ 2 * b_cells >= cells

\* The regions whose candidates are pending.
PendingRegions(detected) == { detected[k][2].region : k \in 1 .. Len(detected) }

\* The positions of detected whose table lies inside the bordered region, inside
\* being the regions whose tables inf_table.bbox.box_is_inside_another(
\* bordered_table.bbox) holds for.
InsidePositions(detected, inside) ==
    { k \in 1 .. Len(detected) : detected[k][2].region \in inside }

\* detected_tables.remove((score, inf_table)): the first equal element goes.
RemoveNone(seq, k) == seq

RemoveAt(seq, k) == SubSeq(seq, 1, k - 1) \o SubSeq(seq, k + 1, Len(seq))

\* [tab for _, tab in detected_tables]
TablesOf(detected) == [k \in 1 .. Len(detected) |-> detected[k][2]]

VARIABLES
    pp_pc,                      \* "idle" | "start" | "regions" | "bordered" | "done"
    inference_tables,           \* the regions of the learned detector
    has_bordered,
    pp_i,                       \* position of the first loop in inference_tables
    inf_tags,                   \* len(inf_table.tags) of the region of the last iteration
    mask_rcnn_count_matches,    \* locals of the first loop, as its last iteration set them
    semi_border,                \* <<>> for None, <<[cells |-> n]>> for a Table
    semi_border_score,
    detected_tables,            \* the candidates <<score, table>>
    image_tables,               \* <<>> before detect_tables_on_page; <<n>>: it found n regions
    pp_j,                       \* position of the second loop in image.tables
    bordered_table,             \* locals of the second loop: <<>> or <<[cells |-> n]>>
    matched,
    inf_cand,                   \* score, inf_table of the inner loop: <<>> or <<score, table>>
    bordered_score,
    page_tables                 \* page.tables

pageVars ==
    <<pp_pc, inference_tables, has_bordered, pp_i, inf_tags, mask_rcnn_count_matches, semi_border,
      semi_border_score, detected_tables, image_tables, pp_j, bordered_table, matched,
      inf_cand, bordered_score, page_tables>>

regionLocals == <<inf_tags, mask_rcnn_count_matches, semi_border, semi_border_score>>
borderedLocals == <<bordered_table, matched, inf_cand, bordered_score>>

PageIdleLocals ==
    /\ has_bordered = FALSE
    /\ pp_i = 1
    /\ inf_tags = 0
    /\ mask_rcnn_count_matches = 0
    /\ semi_border = <<>>
    /\ semi_border_score = 0
    /\ detected_tables = <<>>
    /\ image_tables = <<>>
    /\ pp_j = 1
    /\ bordered_table = <<>>
    /\ matched = FALSE
    /\ inf_cand = <<>>
    /\ bordered_score = 0
    /\ page_tables = <<>>

PageIdle ==
    /\ pp_pc = "idle"
    /\ inference_tables = <<>>
    /\ PageIdleLocals

\* The page is created with no tables; the learned detector has answered.
PageInit ==
    /\ pp_pc = "start"
    /\ inference_tables \in InferenceInputs
    /\ PageIdleLocals

\* if not inference_tables: return page_to_dict(page); else has_bordered is set and
\* the loop over the regions begins.
PageStart ==
    /\ pp_pc = "start"
    /\ IF inference_tables = <<>>
       THEN /\ pp_pc' = "done"
            /\ has_bordered' = has_bordered
       ELSE /\ pp_pc' = "regions"
            /\ has_bordered' = \E k \in 1 .. Len(inference_tables) :
                                    inference_tables[k].label = "Bordered"
    /\ UNCHANGED <<inference_tables, pp_i, regionLocals, detected_tables, image_tables,
                   pp_j, borderedLocals, page_tables>>

\* One iteration of "for inf_table in inference_tables".  The collaborators answer
\* for the region of the iteration: the number of its tags, the scores, the
\* semi-bordered table and the cells of the table reconstructed.  The locals the
\* iteration does not assign are shown as unset (they are not read before they are
\* set).  The text matching (match_table_text, extract_table_text, merge_text_fields)
\* shows in the scores only.  semi_border_to_struct and
\* extract_table_from_inference return a StructuredTable, which is truthy, so the
\* guards "if struct_table:" and "if struct:" pass.
ProcessRegion ==
    /\ pp_pc = "regions"
    /\ pp_i <= Len(inference_tables)
    /\ LET inf_table == inference_tables[pp_i]
       IN  \E tags \in TagCounts, mask \in Scores,
              semi \in {<<>>} \cup { <<[cells |-> c]>> : c \in SemiCellCounts },
              semi_score \in Scores, cells \in TableCellCounts :
              /\ inf_tags' = tags
              /\ mask_rcnn_count_matches' = mask
              /\ IF inf_table.label = "Borderless" /\ semi # <<>>
                 THEN /\ semi_border' = semi
                      /\ semi_border_score' = semi_score
                      /\ IF AdoptSemi(semi_score, mask, semi[1].cells, tags)
                         THEN \* semi_border_to_struct; detected_tables.append; continue
                              detected_tables' =
                                  Append(detected_tables,
                                         <<semi_score, StructTable("semi", pp_i, cells)>>)
                         ELSE \* extract_table_from_inference
                              detected_tables' =
                                  Append(detected_tables,
                                         <<mask, StructTable("mask", pp_i, cells)>>)
                 ELSE /\ semi_border' = <<>>
                      /\ semi_border_score' = 0
                      /\ semi_score = 1
                      /\ inf_table.label = "Bordered" => semi = <<>>
                      /\ detected_tables' =
                            Append(detected_tables, <<mask, StructTable("mask", pp_i, cells)>>)
    /\ pp_i' = pp_i + 1
    /\ UNCHANGED <<pp_pc, inference_tables, has_bordered, image_tables, pp_j,
                   borderedLocals, page_tables>>

\* After the first loop: the quality gate, and the classical detector when it opens.
\* The locals of the first loop are not read again.  When no bordered region is to
\* be gone through, the candidates become the tables of the page, and the rest of
\* process_page (text, headers, output) leaves the tables and their order as they are.
QualityGate ==
    /\ pp_pc = "regions"
    /\ pp_i > Len(inference_tables)
    /\ inf_tags' = 0
    /\ mask_rcnn_count_matches' = 0
    /\ semi_border' = <<>>
    /\ semi_border_score' = 0
    /\ IF NeedsBordered(has_bordered, detected_tables)
       THEN \E n \in 0 .. MaxBordered :
              /\ image_tables' = <<n>>
              /\ IF n > 0
                 THEN /\ pp_pc' = "bordered"
                      /\ page_tables' = page_tables
                 ELSE /\ pp_pc' = "done"
                      /\ page_tables' = page_tables \o TablesOf(detected_tables)
       ELSE /\ image_tables' = image_tables
            /\ pp_pc' = "done"
            /\ page_tables' = page_tables \o TablesOf(detected_tables)
    /\ UNCHANGED <<inference_tables, has_bordered, pp_i, detected_tables, pp_j,
                   borderedLocals>>

\* One iteration of "for bordered_table in image.tables".  The classical detector's
\* region shows by the number of its cells and by the candidates it contains, its
\* text by bordered_score.  semi_border_to_struct returns a StructuredTable, which
\* is truthy, so the guards "if struct_table:" pass.
ProcessBordered ==
    /\ pp_pc = "bordered"
    /\ pp_j <= image_tables[1]
    /\ \E b \in [cells : BorderedCellCounts], inside \in SUBSET PendingRegions(detected_tables),
          b_score \in BorderedScores :
          LET hits == InsidePositions(detected_tables, inside)
          IN  /\ bordered_table' = <<b>>
              /\ IF hits # {}
                 THEN LET k == CHOOSE x \in hits : \A y \in hits : x <= y
                          score == detected_tables[k][1]
                          inf_table == detected_tables[k][2]
                      IN  /\ inf_cand' = detected_tables[k]
                          /\ bordered_score' = b_score
                          /\ IF AdoptBordered(b_score, score, b.cells, inf_table.cells)
                             THEN page_tables' =
                                     Append(page_tables, StructTable("bordered", pp_j, b.cells))
                             ELSE page_tables' = Append(page_tables, inf_table)
                          /\ detected_tables' = RemoveAt(detected_tables, k)
                          /\ matched' = TRUE
                 ELSE /\ inf_cand' = IF detected_tables = <<>> THEN inf_cand
                                     ELSE detected_tables[Len(detected_tables)]
                      /\ b_score = 0
                      /\ bordered_score' = bordered_score
                      /\ matched' = FALSE
                      /\ page_tables' =
                            Append(page_tables, StructTable("bordered", pp_j, b.cells))
                      /\ detected_tables' = detected_tables
    /\ pp_j' = pp_j + 1
    /\ UNCHANGED <<pp_pc, inference_tables, has_bordered, pp_i, regionLocals, image_tables>>

\* After the second loop: the candidates no bordered region matched are kept.  The
\* locals of the loop are not read again, and the rest of process_page (text,
\* headers, output) leaves the tables and their order as they are.
BorderedDone ==
    /\ pp_pc = "bordered"
    /\ pp_j > image_tables[1]
    /\ page_tables' = page_tables \o TablesOf(detected_tables)
    /\ bordered_table' = <<>>
    /\ matched' = FALSE
    /\ inf_cand' = <<>>
    /\ bordered_score' = 0
    /\ pp_pc' = "done"
    /\ UNCHANGED <<inference_tables, has_bordered, pp_i, regionLocals, detected_tables,
                   image_tables, pp_j>>

(***************************************************************************)
(* PageProcessor.process_page: the free-text boxes between the tables      *)
(***************************************************************************)
\* The literal 3 of "text_borders[i * 2 + 1] - text_borders[i * 2] > 3".
TextGap == 3

\* img.shape[0] and img.shape[1] of the page.
ImgHeight == 12
ImgWidth == 10

\* Bound of the input.
MaxTables == 2

\* Tops and bottoms of the tables: gaps of 3 and of 4 to the page's edges and to
\* each other.
TableYs == {1, 4, 5, 8, ImgHeight}

\* table.bbox of the tables of the page; the columns do not show in the text boxes.
TableBoxes ==
    { b \in { Box(1, y, ImgWidth, y2) : y \in TableYs, y2 \in TableYs } :
          b.top_left_y < b.bottom_right_y }

\* page.tables as the table stage left them: in the order the detectors emitted the
\* regions, which no step of process_page sorts.
PageTableInputs ==
    UNION { [1 .. n -> TableBoxes] : n \in 0 .. MaxTables }

\* text_borders = [1]; for table in page.tables: _, y, _, y2 = table.bbox.box;
\* text_borders.extend([y, y2]); text_borders.append(img.shape[0])
TextBordersOf(tables) ==
    [n \in 1 .. 2 * Len(tables) + 2 |->
        IF n = 1 THEN 1
        ELSE IF n = 2 * Len(tables) + 2 THEN ImgHeight
        ELSE IF n % 2 = 0 THEN tables[n \div 2].top_left_y
        ELSE tables[(n - 1) \div 2].bottom_right_y]

\* text_borders[i * 2 + 1] - text_borders[i * 2] > 3
BandTallEnough(borders, i) == borders[2 * i + 2] - borders[2 * i + 1] > TextGap

VARIABLES
    tx_pc,                      \* "idle" | "borders" | "candidates" | "extract" | "done"
    tx_tables,                  \* the boxes of page.tables
    text_borders,
    tx_i,                       \* i of "for i in range(len(text_borders) // 2)"
    text_candidate_boxes,
    tx_k,                       \* position of "for box in text_candidate_boxes"
    page_text                   \* page.text

textVars == <<tx_pc, tx_tables, text_borders, tx_i, text_candidate_boxes, tx_k, page_text>>

TextIdle ==
    /\ tx_pc = "idle"
    /\ tx_tables = <<>>
    /\ text_borders = <<>>
    /\ tx_i = 0
    /\ text_candidate_boxes = <<>>
    /\ tx_k = 1
    /\ page_text = <<>>

\* The tables of the page are final; page.text is empty.
TextInit ==
    /\ tx_pc = "borders"
    /\ tx_tables \in PageTableInputs
    /\ text_borders = <<>>
    /\ tx_i = 0
    /\ text_candidate_boxes = <<>>
    /\ tx_k = 1
    /\ page_text = <<>>

\* Lines 475-479: the borders 1, the top and bottom of every table in the order of
\* page.tables, and the height of the page.
BuildTextBorders ==
    /\ tx_pc = "borders"
    /\ text_borders' = TextBordersOf(tx_tables)
    /\ tx_pc' = "candidates"
    /\ UNCHANGED <<tx_tables, tx_i, text_candidate_boxes, tx_k, page_text>>

\* One iteration of "for i in range(len(text_borders) // 2)".
CandidateStep ==
    /\ tx_pc = "candidates"
    /\ tx_i < Len(text_borders) \div 2
    /\ text_candidate_boxes' =
          IF BandTallEnough(text_borders, tx_i)
          THEN Append(text_candidate_boxes,
                      Box(1, text_borders[2 * tx_i + 1], ImgWidth, text_borders[2 * tx_i + 2]))
          ELSE text_candidate_boxes
    /\ tx_i' = tx_i + 1
    /\ UNCHANGED <<tx_pc, tx_tables, text_borders, tx_k, page_text>>

CandidatesDone ==
    /\ tx_pc = "candidates"
    /\ tx_i >= Len(text_borders) \div 2
    /\ tx_pc' = "extract"
    /\ UNCHANGED <<tx_tables, text_borders, tx_i, text_candidate_boxes, tx_k, page_text>>

\* One iteration of "for box in text_candidate_boxes": the extractor answers with a
\* text or with none; "if text: page.text.append(TextField(box, text))".
ExtractStep ==
    /\ tx_pc = "extract"
    /\ tx_k <= Len(text_candidate_boxes)
    /\ \E text \in {<<>>, <<"t">>} :
          page_text' = IF text # <<>>
                       THEN Append(page_text, TextField(text_candidate_boxes[tx_k], text))
                       ELSE page_text
    /\ tx_k' = tx_k + 1
    /\ UNCHANGED <<tx_pc, tx_tables, text_borders, tx_i, text_candidate_boxes>>

ExtractDone ==
    /\ tx_pc = "extract"
    /\ tx_k > Len(text_candidate_boxes)
    /\ tx_pc' = "done"
    /\ UNCHANGED <<tx_tables, text_borders, tx_i, text_candidate_boxes, tx_k, page_text>>

(***************************************************************************)
(* The specifications: one per function, the other functions staying idle. *)
(***************************************************************************)
vars == <<closestVars, mergeTextVars, headerVars, actualizeVars, snapVars, pageVars, textVars>>

InitClosest ==
    ClosestInit /\ MergeTextIdle /\ HeaderIdle /\ ActualizeIdle /\ SnapIdle /\ PageIdle /\ TextIdle

RunClosestStep ==
    ClosestStep /\ UNCHANGED <<mergeTextVars, headerVars, actualizeVars, snapVars, pageVars, textVars>>

RunClosestReturn ==
    ClosestReturn /\ UNCHANGED <<mergeTextVars, headerVars, actualizeVars, snapVars, pageVars, textVars>>

NextClosest == RunClosestStep \/ RunClosestReturn

SpecClosest == InitClosest /\ [][NextClosest]_vars

InitMergeText ==
    ClosestIdle /\ MergeTextInit /\ HeaderIdle /\ ActualizeIdle /\ SnapIdle /\ PageIdle /\ TextIdle

RunMergeTextCall ==
    MergeTextCall /\ UNCHANGED <<closestVars, headerVars, actualizeVars, snapVars, pageVars, textVars>>

NextMergeText == RunMergeTextCall

SpecMergeText == InitMergeText /\ [][NextMergeText]_vars

InitHeader ==
    ClosestIdle /\ MergeTextIdle /\ HeaderInit /\ ActualizeIdle /\ SnapIdle /\ PageIdle /\ TextIdle

RunCreateHeaderCall ==
    CreateHeaderCall /\ UNCHANGED <<closestVars, mergeTextVars, actualizeVars, snapVars, pageVars, textVars>>

NextHeader == RunCreateHeaderCall

SpecHeader == InitHeader /\ [][NextHeader]_vars

InitActualize ==
    ClosestIdle /\ MergeTextIdle /\ HeaderIdle /\ ActualizeInit /\ SnapIdle /\ PageIdle /\ TextIdle

RunActualizeHeaderCall ==
    ActualizeHeaderCall /\ UNCHANGED <<closestVars, mergeTextVars, headerVars, snapVars, pageVars, textVars>>

NextActualize == RunActualizeHeaderCall

SpecActualize == InitActualize /\ [][NextActualize]_vars

InitSnap ==
    ClosestIdle /\ MergeTextIdle /\ HeaderIdle /\ ActualizeIdle /\ SnapInit /\ PageIdle /\ TextIdle

RunSnapColumns ==
    SnapColumns /\ UNCHANGED <<closestVars, mergeTextVars, headerVars, actualizeVars, pageVars, textVars>>

RunSnapRows ==
    SnapRows /\ UNCHANGED <<closestVars, mergeTextVars, headerVars, actualizeVars, pageVars, textVars>>

NextSnap == RunSnapColumns \/ RunSnapRows

SpecSnap == InitSnap /\ [][NextSnap]_vars

notPageVars == <<closestVars, mergeTextVars, headerVars, actualizeVars, snapVars, textVars>>

InitPage ==
    ClosestIdle /\ MergeTextIdle /\ HeaderIdle /\ ActualizeIdle /\ SnapIdle /\ PageInit /\ TextIdle

RunPageStart == PageStart /\ UNCHANGED notPageVars
RunProcessRegion == ProcessRegion /\ UNCHANGED notPageVars
RunQualityGate == QualityGate /\ UNCHANGED notPageVars
RunProcessBordered == ProcessBordered /\ UNCHANGED notPageVars
RunBorderedDone == BorderedDone /\ UNCHANGED notPageVars

NextPage ==
    \/ RunPageStart
    \/ RunProcessRegion
    \/ RunQualityGate
    \/ RunProcessBordered
    \/ RunBorderedDone

SpecPage == InitPage /\ [][NextPage]_vars

notTextVars == <<closestVars, mergeTextVars, headerVars, actualizeVars, snapVars, pageVars>>

InitText ==
    ClosestIdle /\ MergeTextIdle /\ HeaderIdle /\ ActualizeIdle /\ SnapIdle /\ PageIdle /\ TextInit

RunBuildTextBorders == BuildTextBorders /\ UNCHANGED notTextVars
RunCandidateStep == CandidateStep /\ UNCHANGED notTextVars
RunCandidatesDone == CandidatesDone /\ UNCHANGED notTextVars
RunExtractStep == ExtractStep /\ UNCHANGED notTextVars
RunExtractDone == ExtractDone /\ UNCHANGED notTextVars

NextText ==
    \/ RunBuildTextBorders
    \/ RunCandidateStep
    \/ RunCandidatesDone
    \/ RunExtractStep
    \/ RunExtractDone

SpecText == InitText /\ [][NextText]_vars

(***************************************************************************)
(* Properties of merge_closest_text_fields                                 *)
(***************************************************************************)
RECURSIVE SpaceJoin(_)
SpaceJoin(fields) ==
    IF fields = <<>> THEN <<>>
    ELSE IF Len(fields) = 1 THEN fields[1].text
    ELSE fields[1].text \o Space \o SpaceJoin(Tail(fields))

Occurrences(letter, text) == Cardinality({ i \in 1 .. Len(text) : text[i] = letter })

RECURSIVE TotalOccurrences(_, _)
TotalOccurrences(letter, fields) ==
    IF fields = <<>> THEN 0
    ELSE Occurrences(letter, fields[1].text) + TotalOccurrences(letter, Tail(fields))

\* C3: the sweep handles every field of the sorted input exactly once: each input
\* text occurs exactly once in the output, the space-joined output texts equal the
\* space-joined sorted input texts, and a one-field input is returned unchanged.
C3_EachFieldExactlyOnce ==
    mc_pc = "done" =>
        /\ \A k \in 1 .. Len(mc_sorted) :
              TotalOccurrences(mc_sorted[k].text[1], merged_fields) = 1
        /\ SpaceJoin(merged_fields) = SpaceJoin(mc_sorted)
        /\ (Len(mc_sorted) = 1 => merged_fields = mc_sorted)

\* C4: an accumulator and the next sorted field, with gap = next.left -
\* accumulator.right, are merged (boxes merged, texts joined by one space, nothing
\* flushed) iff -20 < gap < 20; otherwise the accumulator is flushed to the output
\* and the next field becomes the accumulator.
C4_MergeIffWithinGap ==
    [][(mc_pc = "loop" /\ mc_i <= Len(mc_sorted) /\ curr_field # <<>>) =>
        LET acc == curr_field[1]
            nxt == mc_sorted[mc_i]
            gap == nxt.bbox.top_left_x - acc.bbox.bottom_right_x
        IN  IF -20 < gap /\ gap < 20
            THEN /\ merged_fields' = merged_fields
                 /\ curr_field' =
                      <<[bbox |-> Box(Min(acc.bbox.top_left_x, nxt.bbox.top_left_x),
                                      Min(acc.bbox.top_left_y, nxt.bbox.top_left_y),
                                      Max(acc.bbox.bottom_right_x, nxt.bbox.bottom_right_x),
                                      Max(acc.bbox.bottom_right_y, nxt.bbox.bottom_right_y)),
                         text |-> acc.text \o <<" ">> \o nxt.text]>>
            ELSE /\ merged_fields' = merged_fields \o <<acc>>
                 /\ curr_field' = <<nxt>>]_vars

\* A run in which fields "a" and "b" were merged into one output field and a later
\* field was kept apart by a gap of 20 or more.
C4_Witness ==
    /\ mc_pc = "done"
    /\ Len(mc_sorted) = 3
    /\ \E i \in 1 .. Len(merged_fields) :
          /\ Occurrences(mc_sorted[1].text[1], merged_fields[i].text) >= 1
          /\ Occurrences(mc_sorted[2].text[1], merged_fields[i].text) = 1
          /\ Occurrences(mc_sorted[3].text[1], merged_fields[i].text) = 0
    /\ mc_sorted[3].bbox.top_left_x - Max(mc_sorted[1].bbox.bottom_right_x,
                                          mc_sorted[2].bbox.bottom_right_x) >= 20

(***************************************************************************)
(* Properties of merge_text_fields                                         *)
(***************************************************************************)
\* The index pairs <<j, i>> of (poppler field j, paddle field i) with i containing j.
ContainedIn(j, i) ==
    LET b == mt_poppler[j].bbox
        a == mt_paddle[i].bbox
    IN  /\ a.top_left_x <= b.top_left_x /\ b.bottom_right_x <= a.bottom_right_x
        /\ a.top_left_y <= b.top_left_y /\ b.bottom_right_y <= a.bottom_right_y

PairsBefore(j, i) ==
    Cardinality({ p \in (1 .. Len(mt_poppler)) \X (1 .. Len(mt_paddle)) :
                    /\ ContainedIn(p[1], p[2])
                    /\ (p[1] < j \/ (p[1] = j /\ p[2] <= i)) })

NumPairs == PairsBefore(Len(mt_poppler), Len(mt_paddle))

UnmatchedPoppler == { j \in 1 .. Len(mt_poppler) : \A i \in 1 .. Len(mt_paddle) : ~ContainedIn(j, i) }

UnmatchedPaddle == { i \in 1 .. Len(mt_paddle) : \A j \in 1 .. Len(mt_poppler) : ~ContainedIn(j, i) }

HeaderLike(line) ==
    LET h == Cardinality({ k \in DOMAIN line : line[k][1] > line[k][2] })
    IN  IF Len(line) > 5 THEN 5 * h > Len(line) ELSE 2 * h > Len(line)

ExaminedHeaderLike ==
    { i \in 1 .. Len(ch_series) : i <= ch_limit /\ HeaderLike(ch_series[i]) }

\* C6: create_header looks at the first header_limit lines only and returns the
\* lines from the first through the last header-like one among them (the lines
\* between included); it returns no header when none is header-like or when the
\* header would be longer than 75% of all lines.  So the header is a prefix of
\* length <= min(header_limit, 0.75 * number of lines).
C6_HeaderIsPrefixToLastHeaderLike ==
    ch_pc = "done" =>
        /\ IF ExaminedHeaderLike = {}
           THEN ch_header = <<>>
           ELSE LET last == CHOOSE i \in ExaminedHeaderLike : \A j \in ExaminedHeaderLike : j <= i
                IN  IF 4 * last > 3 * Len(ch_series)
                    THEN ch_header = <<>>
                    ELSE ch_header = [i \in 1 .. last |-> ch_series[i]]
        /\ Len(ch_header) <= ch_limit
        /\ 4 * Len(ch_header) <= 3 * Len(ch_series)

\* A header that holds a line that is not header-like before its last, header-like
\* line, taken from a series longer than the scan limit.
C6_Witness ==
    /\ ch_pc = "done"
    /\ Len(ch_series) > ch_limit
    /\ Len(ch_header) >= 3
    /\ \E i \in 1 .. Len(ch_header) - 1 : ~HeaderLike(ch_header[i])
    /\ HeaderLike(ch_header[Len(ch_header)])

(***************************************************************************)
(* Properties of actualize_header                                          *)
(***************************************************************************)
\* The digit density of a row as the fraction <<digits, characters>>, <<0, 1>> for
\* a row without characters.
Density(row) ==
    LET chars == Concat([k \in 1 .. Len(row) |-> [text |-> Concat(row[k].text_boxes)]])
        d == Cardinality({ k \in 1 .. Len(chars) : chars[k] \in Digits })
    IN  IF Len(chars) = 0 THEN <<0, 1>> ELSE <<d, Len(chars)>>

DensityLeq(p, q) == p[1] * q[2] <= q[1] * p[2]

\* The rows accepted when each row is compared with the row accepted before it.
ChainLength(rows) ==
    CHOOSE n \in 1 .. Len(rows) :
        /\ \A k \in 2 .. n : DensityLeq(Density(rows[k]), Density(rows[k - 1]))
        /\ n < Len(rows) => ~DensityLeq(Density(rows[n + 1]), Density(rows[n]))

\* C7: row 0 is accepted; each following row joins the header while its digit
\* density is <= that of the row accepted before it; the first row of higher
\* density stops the scan; a header of all rows is replaced by the empty header.
C7_HeaderByPreviousRowDensity ==
    ah_pc = "done" =>
        ah_header = IF ChainLength(ah_rows) = Len(ah_rows) THEN <<>>
                    ELSE SubSeq(ah_rows, 1, ChainLength(ah_rows))

(***************************************************************************)
(* Properties of the line snapping                                         *)
(***************************************************************************)
\* A sorted line set seen as adjacent bands: <<l1, l2>>, <<l2, l3>>, ...
AdjacentBands(lines) == [k \in 1 .. Len(lines) - 1 |-> <<lines[k], lines[k + 1]>>]

\* C8: snapping is idempotent: the snapped lines, seen as the edges of adjacent
\* bands and snapped again, are the same lines, for column and for row edges.
C8_SnapIdempotent ==
    bs_pc = "done" =>
        /\ Len(v_lines) >= 2 => SnapLines(AdjacentBands(v_lines)) = v_lines
        /\ Len(h_lines) >= 2 => SnapLines(AdjacentBands(h_lines)) = h_lines

\* The set the sorted edges e[1..n] are to snap to: the two outer edges and the
\* midpoint of each pair (e[2], e[3]), (e[4], e[5]), ... of the edges between.
InteriorMidpoints(bands) ==
    LET e == SortInts(Edges(bands))
        n == Len(e)
    IN  {e[1], e[n]} \cup { (e[2 * k] + e[2 * k + 1]) \div 2 : k \in 1 .. (n - 2) \div 2 }

\* C10: the snapped lines are the outer edges verbatim plus the integer midpoint
\* of each consecutive pair of the interior edges, sorted and deduplicated; bands
\* that share their boundaries snap to these boundaries.
C10_SnapIsInteriorMidpoints ==
    bs_pc = "done" =>
        /\ v_lines = SortedOfSet(InteriorMidpoints(bs_cols))
        /\ h_lines = SortedOfSet(InteriorMidpoints(bs_rows))

C9_RerunIffBorderedOrLowScore ==
    [][IF pp_pc = "regions" /\ pp_i > Len(inference_tables)
       THEN LET rerun == image_tables' # <<>>
                low == \E k \in 1 .. Len(detected_tables) :
                          5 * detected_tables[k][1] < detected_tables[k][2].cells
                anyBordered == \E k \in 1 .. Len(inference_tables) :
                                  inference_tables[k].label = "Bordered"
            IN  /\ rerun <=> (anyBordered \/ low)
                /\ (~rerun \/ image_tables'[1] = 0) =>
                      /\ pp_pc' = "done"
                      /\ page_tables' = [k \in 1 .. Len(detected_tables) |-> detected_tables[k][2]]
                      /\ \A k \in 1 .. Len(page_tables') : page_tables'[k].region = k
       ELSE /\ image_tables' = image_tables
            /\ (pp_pc = "start" /\ inference_tables = <<>>) =>
                  (pp_pc' = "done" /\ page_tables' = <<>>)]_vars

\* A page without Bordered regions whose detector was re-run for a low score and
\* found nothing: both candidates are the page's tables.
C9_Witness ==
    /\ pp_pc = "done"
    /\ ~has_bordered
    /\ image_tables = <<0>>
    /\ Len(page_tables) = 2
    /\ page_tables[1].region = 1

\* The candidates of region r among the tables of a sequence.
CandidatesOf(r, tables) ==
    { k \in 1 .. Len(tables) : tables[k].region = r /\ tables[k].kind # "bordered" }

\* The tables a bordered region has added.
BorderedTablesOf(j, tables) ==
    { k \in 1 .. Len(tables) : tables[k].region = j /\ tables[k].kind = "bordered" }

OverlapsVertically(box, table) ==
    Max(box.top_left_y, table.top_left_y) < Min(box.bottom_right_y, table.bottom_right_y)

\* C12: every free-text block appended to page.text is a well-formed box
\* (top < bottom) whose vertical extent overlaps the vertical extent of no table of
\* the page, whatever the order of page.tables.
C12_TextBlocksAvoidTables ==
    \A k \in 1 .. Len(page_text) :
        /\ page_text[k].bbox.top_left_y < page_text[k].bbox.bottom_right_y
        /\ \A t \in 1 .. Len(tx_tables) : ~OverlapsVertically(page_text[k].bbox, tx_tables[t])

====
